---- MODULE Spec2Model ----
(***************************************************************************)
(* Model of PromptManager (backend/prompt_manager_core.py): the SQLite     *)
(* store of folders, prompts and prompt versions, and the operations that  *)
(* write it.  Every public method opens its own connection with            *)
(* PRAGMA foreign_keys = ON, so the ON DELETE clauses of the schema act.   *)
(*                                                                         *)
(* A method that raises between get_connection() and close() abandons its  *)
(* connection with the transaction still open; until the interpreter       *)
(* collects it, SQLite refuses every other connection's write with         *)
(* "database is locked" (variable leaked).                                 *)
(*                                                                         *)
(* folders, prompts and versions hold what is committed.  txn holds, for    *)
(* each thread that is inside update_prompt, how far it has come and what  *)
(* its connection has written but not yet committed.                       *)
(*                                                                         *)
(* Strings are sequences of one-character strings, so that str.strip() and *)
(* SQL LOWER() are computed.  Optional[int] is a sequence of length <= 1:  *)
(* None/NULL is <<>> and the integer i is <<i>>.                           *)
(***************************************************************************)
EXTENDS Integers, Sequences, FiniteSets, TLC

VARIABLES folders, prompts, versions, seq_folders, seq_prompts, seq_versions, leaked, op, ret,
          txn

store == <<folders, prompts, versions, seq_folders, seq_prompts, seq_versions>>
vars == <<folders, prompts, versions, seq_folders, seq_prompts, seq_versions, leaked, op, ret, txn>>

(* ---- bounds: folder rows and version rows ever inserted ---- *)
MaxRows == 3
(* version rows ever inserted while calls run concurrently *)
MaxConcurrentRows == 4

(* ---- inputs ---- *)
NULL == <<>>
Some(i) == <<i>>

(* <<title, content>> pairs offered to add_prompt and update_prompt *)
PromptTexts == { << <<"a">>, <<"x">> >>, << <<"A">>, <<"y">> >>, << <<" ", "a">>, <<"x">> >>,
                 << <<>>, <<>> >> }
Titles == { tc[1] : tc \in PromptTexts }
Contents == { tc[2] : tc \in PromptTexts }
(* add_prompt is also offered pairs in which only one of the two is blank *)
AddPromptTexts == PromptTexts \cup { << <<>>, <<"x">> >>, << <<"a">>, <<>> >>,
                                     << <<" ">>, <<" ">> >> }
FolderNames == { <<>>, <<"f">> }
(* add_folder is also offered a name of blanks only *)
AddFolderNames == FolderNames \cup { <<" ">> }
(* every id handed out so far and one that never was *)
PromptIds == 1..(seq_prompts + 1)
FolderIds == 1..(seq_folders + 1)
FolderArgs == {NULL} \cup { Some(f) : f \in FolderIds }
VersionNumbers == 1..(seq_versions + 1)

(* ---- str.strip() and SQL LOWER() ---- *)
Whitespace == { " ", "\t", "\n", "\r" }

RECURSIVE LStrip(_)
LStrip(s) == IF s # <<>> /\ Head(s) \in Whitespace THEN LStrip(Tail(s)) ELSE s

RECURSIVE RStrip(_)
RStrip(s) == IF s # <<>> /\ s[Len(s)] \in Whitespace THEN RStrip(SubSeq(s, 1, Len(s) - 1)) ELSE s

(* faulty variant: the test is "if not title" with no strip() *)
StripOff(s) == s

Strip(s) == RStrip(LStrip(s))

AsciiLower == [ A |-> "a", B |-> "b", C |-> "c", D |-> "d", E |-> "e", F |-> "f", G |-> "g",
                H |-> "h", I |-> "i", J |-> "j", K |-> "k", L |-> "l", M |-> "m", N |-> "n",
                O |-> "o", P |-> "p", Q |-> "q", R |-> "r", S |-> "s", T |-> "t", U |-> "u",
                V |-> "v", W |-> "w", X |-> "x", Y |-> "y", Z |-> "z" ]

LOWER(s) == [ i \in DOMAIN s |-> IF s[i] \in DOMAIN AsciiLower THEN AsciiLower[s[i]] ELSE s[i] ]

(* ---- rows ---- *)
(* faulty variant: the UPDATE writes the version it read, not new_version *)
PromptRowStaleVersion(title, content, folder_id, current_version) ==
    [ title |-> title, content |-> content, folder_id |-> folder_id,
      current_version |-> IF current_version > 1 THEN current_version - 1 ELSE 1 ]

PromptRow(title, content, folder_id, current_version) ==
    [ title |-> title, content |-> content, folder_id |-> folder_id,
      current_version |-> current_version ]

VersionRow(prompt_id, title, content, folder_id, version_number) ==
    [ prompt_id |-> prompt_id, title |-> title, content |-> content,
      folder_id |-> folder_id, version_number |-> version_number ]

(* a function extended by one row, and restricted to a set of keys *)
Insert(table, id, row) == [ k \in DOMAIN table \cup {id} |-> IF k = id THEN row ELSE table[k] ]
Restrict(table, keys) == [ k \in keys |-> table[k] ]

(* faulty variant: the rowid of the newest row is handed out again *)
NextRowIdReusing(seq) == IF seq = 0 THEN 1 ELSE seq

(* INTEGER PRIMARY KEY AUTOINCREMENT: one more than the largest rowid ever used *)
NextRowId(seq) == seq + 1

(* FOREIGN KEY (folder_id) REFERENCES folders (id), checked at the end of the statement *)
(* faulty variant: the connection is opened without PRAGMA foreign_keys = ON *)
ForeignKeyUnchecked(folder_id) == TRUE

ForeignKeyOk(folder_id) == folder_id = NULL \/ folder_id[1] \in DOMAIN folders

(* ---- results of a call ---- *)
Returned(status, value) == [ status |-> status, value |-> value ]

(* ---- api.py create_prompt: sqlite3.Error becomes status 400 ---- *)
create_prompt_status(result) == IF result.status = "id" THEN 200 ELSE 400

(* ---- api.py, the endpoints under /prompts/{prompt_id}: the status of the answer,
   from what the core returned or raised.  Only sqlite3.Error is caught, and only
   by PUT; any other exception ends in the framework's 500. ---- *)
SqliteErrors == { "EmptyError", "DuplicateError", "IntegrityError", "OperationalError" }

(* GET /prompts/{prompt_id} *)
get_prompt_status(result) ==
    IF result.status # "prompt" THEN 500
    ELSE IF result.value = <<>> THEN 404
    ELSE 200

(* PUT /prompts/{prompt_id}; prompt is what get_prompt returns afterwards *)
update_prompt_status(result, prompt) ==
    IF result.status \in SqliteErrors THEN 400
    ELSE IF result.status = "false" THEN 404
    ELSE IF result.status = "true" /\ prompt # <<>> THEN 200
    ELSE 500

(* DELETE /prompts/{prompt_id} *)
delete_prompt_status(result) ==
    IF result.status = "true" THEN 200
    ELSE IF result.status = "false" THEN 404
    ELSE 500

(* GET /prompts/{prompt_id}/versions *)
get_prompt_versions_status(result) ==
    IF result.status # "versions" THEN 500
    ELSE IF result.value = <<>> THEN 404
    ELSE 200

(* POST /prompts/{prompt_id}/restore/{version_number} *)
restore_version_status(result) ==
    IF result.status = "true" THEN 200
    ELSE IF result.status = "false" THEN 404
    ELSE 500

(* ---- reads ---- *)
get_prompt(prompt_id) ==
    IF prompt_id \in DOMAIN prompts THEN << prompts[prompt_id] >> ELSE <<>>

(* SQLite's LIKE: % stands for any run of characters, _ for any one character,
   and letters compare ignoring ASCII case *)
RECURSIVE Like(_, _)
Like(pattern, s) ==
    IF pattern = <<>> THEN s = <<>>
    ELSE IF Head(pattern) = "%"
    THEN Like(Tail(pattern), s) \/ (s # <<>> /\ Like(pattern, Tail(s)))
    ELSE IF s = <<>> THEN FALSE
    ELSE /\ Head(pattern) = "_" \/ LOWER(<< Head(pattern) >>) = LOWER(<< Head(s) >>)
         /\ Like(Tail(pattern), Tail(s))

(* get_prompts: folder_id and search_query are absent (NULL) or Some(value); the
   rows that are returned, by id *)
get_prompts(folder_id, search_query) ==
    LET hits == { p \in DOMAIN prompts :
                    /\ folder_id # NULL => prompts[p].folder_id = folder_id
                    /\ (search_query # NULL /\ search_query[1] # <<>>)
                          => Like(<<"%">> \o LOWER(search_query[1]) \o <<"%">>,
                                  LOWER(prompts[p].title)) }
    IN  [ p \in hits |-> prompts[p] ]

VersionIdsOf(prompt_id) == { v \in DOMAIN versions : versions[v].prompt_id = prompt_id }

(* threads that call the core at the same time *)
Writers == { 1, 2 }

(* a thread that is in no call *)
Idle == [ pc |-> "idle", prompt_id |-> 0, title |-> <<>>, content |-> <<>>,
          folder_id |-> NULL, new_version |-> 0 ]

Init ==
    /\ txn = [ w \in Writers |-> Idle ]
    /\ folders = <<>>
    /\ prompts = <<>>
    /\ versions = <<>>
    /\ seq_folders = 0
    /\ seq_prompts = 0
    /\ seq_versions = 0
    /\ leaked = FALSE
    /\ op = "init_db"
    /\ ret = Returned("none", 0)

(* faulty variant: the failed statement keeps the rowid it was about to use *)
RaiseConsumingRowId(error) ==
    /\ ret' = Returned(error, 0)
    /\ seq_versions' = seq_versions + 1
    /\ UNCHANGED <<folders, prompts, versions, seq_folders, seq_prompts>>

(* an exception leaves the database as it was *)
Raise(error) ==
    /\ ret' = Returned(error, 0)
    /\ UNCHANGED store

(* ---- add_prompt ---- *)
IsDuplicateTitle(title) ==
    \E p \in DOMAIN prompts : LOWER(prompts[p].title) = LOWER(Strip(title))

add_prompt(title, content, folder_id) ==
    /\ op' = "add_prompt"
    /\ UNCHANGED leaked
    /\ IF Strip(title) = <<>> \/ Strip(content) = <<>>
       THEN Raise("EmptyError")
       ELSE IF IsDuplicateTitle(title)
       THEN Raise("DuplicateError")
       ELSE IF leaked
       THEN Raise("OperationalError")
       ELSE IF ~ForeignKeyOk(folder_id)
       THEN Raise("IntegrityError")
       ELSE /\ seq_folders + seq_versions < MaxRows
            /\ LET prompt_id == NextRowId(seq_prompts) IN
               /\ prompts' = Insert(prompts, prompt_id, PromptRow(title, content, folder_id, 1))
               /\ versions' = Insert(versions, NextRowId(seq_versions),
                                     VersionRow(prompt_id, title, content, folder_id, 1))
               /\ seq_prompts' = prompt_id
               /\ seq_versions' = NextRowId(seq_versions)
               /\ ret' = Returned("id", prompt_id)
            /\ UNCHANGED <<folders, seq_folders>>

(* ---- update_prompt ---- *)
(* faulty variant: the version counter skips a number *)
new_version_skipping(current_version) == current_version + 2

new_version_of(current_version) == current_version + 1

(* the statements of update_prompt; restore_version runs them too.  There is no
   try/finally: an exception leaves the connection open inside its transaction. *)
update_prompt_body(prompt_id, title, content, folder_id) ==
    IF prompt_id \notin DOMAIN prompts
    THEN /\ ret' = Returned("false", 0)
         /\ UNCHANGED <<store, leaked>>
    ELSE IF leaked
    THEN /\ Raise("OperationalError")
         /\ leaked' = TRUE
    ELSE IF ~ForeignKeyOk(folder_id)
    THEN /\ Raise("IntegrityError")
         /\ leaked' = TRUE
    ELSE /\ seq_folders + seq_versions < MaxRows
         /\ LET new_version == new_version_of(prompts[prompt_id].current_version) IN
            /\ versions' = Insert(versions, NextRowId(seq_versions),
                                  VersionRow(prompt_id, title, content, folder_id, new_version))
            /\ prompts' = [ prompts EXCEPT ![prompt_id] =
                                PromptRow(title, content, folder_id, new_version) ]
         /\ seq_versions' = NextRowId(seq_versions)
         /\ ret' = Returned("true", 0)
         /\ UNCHANGED <<folders, seq_folders, seq_prompts, leaked>>

update_prompt(prompt_id, title, content, folder_id) ==
    /\ op' = "update_prompt"
    /\ update_prompt_body(prompt_id, title, content, folder_id)

(* ---- get_prompt_version / restore_version ---- *)
MinOf(S) == CHOOSE x \in S : \A y \in S : x <= y
MaxOf(S) == CHOOSE x \in S : \A y \in S : x >= y

(* faulty variant: WHERE version_number = ? without the prompt_id *)
get_prompt_version_of_any_prompt(prompt_id, version_number) ==
    LET hits == { v \in DOMAIN versions : versions[v].version_number = version_number }
    IN  IF hits = {} THEN <<>> ELSE << versions[MinOf(hits)] >>

get_prompt_version(prompt_id, version_number) ==
    LET hits == { v \in DOMAIN versions : /\ versions[v].prompt_id = prompt_id
                                          /\ versions[v].version_number = version_number }
    IN  IF hits = {} THEN <<>> ELSE << versions[MinOf(hits)] >>

restore_version(prompt_id, version_number) ==
    /\ op' = "restore_version"
    /\ LET version == get_prompt_version(prompt_id, version_number) IN
       IF version = <<>>
       THEN /\ ret' = Returned("false", 0)
            /\ UNCHANGED <<store, leaked>>
       ELSE update_prompt_body(prompt_id, version[1].title, version[1].content,
                               version[1].folder_id)

(* ---- delete_prompt ---- *)
(* faulty variant: the connection is opened without PRAGMA foreign_keys = ON *)
CascadeVersionsOff(table, prompt_id) == table

(* FOREIGN KEY (prompt_id) REFERENCES prompts (id) ON DELETE CASCADE *)
CascadeVersions(table, prompt_id) ==
    Restrict(table, { v \in DOMAIN table : table[v].prompt_id # prompt_id })

(* except sqlite3.Error: return False *)
delete_prompt(prompt_id) ==
    /\ op' = "delete_prompt"
    /\ UNCHANGED leaked
    /\ IF ~leaked /\ prompt_id \in DOMAIN prompts
       THEN /\ prompts' = Restrict(prompts, DOMAIN prompts \ {prompt_id})
            /\ versions' = CascadeVersions(versions, prompt_id)
            /\ ret' = Returned("true", 0)
            /\ UNCHANGED <<folders, seq_folders, seq_prompts, seq_versions>>
       ELSE /\ ret' = Returned("false", 0)
            /\ UNCHANGED store

(* ---- folders ---- *)
add_folder(name) ==
    /\ op' = "add_folder"
    /\ UNCHANGED leaked
    /\ IF Strip(name) = <<>>
       THEN Raise("EmptyError")
       ELSE IF leaked
       THEN Raise("OperationalError")
       ELSE /\ seq_folders + seq_versions < MaxRows
            /\ folders' = Insert(folders, NextRowId(seq_folders), name)
            /\ seq_folders' = NextRowId(seq_folders)
            /\ ret' = Returned("id", NextRowId(seq_folders))
            /\ UNCHANGED <<prompts, versions, seq_prompts, seq_versions>>

update_folder(folder_id, new_name) ==
    /\ op' = "update_folder"
    /\ IF leaked
       THEN /\ Raise("OperationalError")
            /\ leaked' = TRUE
       ELSE /\ UNCHANGED leaked
            /\ IF folder_id \in DOMAIN folders
               THEN /\ folders' = [ folders EXCEPT ![folder_id] = new_name ]
                    /\ ret' = Returned("true", 0)
                    /\ UNCHANGED <<prompts, versions, seq_folders, seq_prompts, seq_versions>>
               ELSE /\ ret' = Returned("false", 0)
                    /\ UNCHANGED store

(* FOREIGN KEY (folder_id) REFERENCES folders (id) ON DELETE SET NULL, on prompts *)
SetNullPrompts(table, folder_id) ==
    [ p \in DOMAIN table |->
        IF table[p].folder_id = Some(folder_id)
        THEN [ table[p] EXCEPT !.folder_id = NULL ] ELSE table[p] ]

(* faulty variant: prompt_versions.folder_id is declared ON DELETE CASCADE *)
SetNullVersionsCascading(table, folder_id) ==
    Restrict(table, { v \in DOMAIN table : table[v].folder_id # Some(folder_id) })

(* faulty variant: prompt_versions.folder_id has no ON DELETE clause that rewrites the snapshot *)
SetNullVersionsOff(table, folder_id) == table

(* FOREIGN KEY (folder_id) REFERENCES folders (id) ON DELETE SET NULL, on prompt_versions *)
SetNullVersions(table, folder_id) ==
    [ v \in DOMAIN table |->
        IF table[v].folder_id = Some(folder_id)
        THEN [ table[v] EXCEPT !.folder_id = NULL ] ELSE table[v] ]

delete_folder(folder_id) ==
    /\ op' = "delete_folder"
    /\ IF leaked
       THEN /\ Raise("OperationalError")
            /\ leaked' = TRUE
       ELSE /\ UNCHANGED leaked
            /\ IF folder_id \in DOMAIN folders
               THEN /\ folders' = Restrict(folders, DOMAIN folders \ {folder_id})
                    /\ prompts' = SetNullPrompts(prompts, folder_id)
                    /\ versions' = SetNullVersions(versions, folder_id)
                    /\ ret' = Returned("true", 0)
                    /\ UNCHANGED <<seq_folders, seq_prompts, seq_versions>>
               ELSE /\ ret' = Returned("false", 0)
                    /\ UNCHANGED store

(* the interpreter collects the abandoned connections; closing them rolls their
   transactions back and releases the lock *)
(* ---- get_prompts_by_folder ---- *)
get_prompts_by_folder(folder_id) == get_prompts(folder_id, NULL)

(* ---- get_folders, get_folder_mapping ---- *)
get_folders == { [ id |-> f, name |-> folders[f] ] : f \in DOMAIN folders }

get_folder_mapping ==
    [ f \in { folder.id : folder \in get_folders } |->
         (CHOOSE folder \in get_folders : folder.id = f).name ]

collect_garbage ==
    /\ leaked
    /\ leaked' = FALSE
    /\ UNCHANGED <<store, op, ret>>

(* ---- get_prompt_versions: ORDER BY version_number DESC ---- *)
(* faulty variant: ORDER BY version_number ASC *)
RECURSIVE OrderByVersionAsc(_)
OrderByVersionAsc(ids) ==
    IF ids = {} THEN <<>>
    ELSE LET low == CHOOSE v \in ids :
                        \A w \in ids : versions[v].version_number <= versions[w].version_number
         IN  << versions[low] >> \o OrderByVersionAsc(ids \ {low})

RECURSIVE OrderByVersionDesc(_)
OrderByVersionDesc(ids) ==
    IF ids = {} THEN <<>>
    ELSE LET top == CHOOSE v \in ids :
                        \A w \in ids : versions[v].version_number >= versions[w].version_number
         IN  << versions[top] >> \o OrderByVersionDesc(ids \ {top})

get_prompt_versions(prompt_id) == OrderByVersionDesc(VersionIdsOf(prompt_id))

(* one call at a time, each run from its first statement to its return *)
Next ==
    \/ \E tc \in AddPromptTexts, f \in FolderArgs :
          add_prompt(tc[1], tc[2], f) /\ UNCHANGED txn
    \/ \E p \in PromptIds, tc \in PromptTexts, f \in FolderArgs :
          update_prompt(p, tc[1], tc[2], f) /\ UNCHANGED txn
    \/ \E p \in PromptIds, n \in VersionNumbers : restore_version(p, n) /\ UNCHANGED txn
    \/ \E p \in PromptIds : delete_prompt(p) /\ UNCHANGED txn
    \/ \E n \in AddFolderNames : add_folder(n) /\ UNCHANGED txn
    \/ \E f \in FolderIds, n \in FolderNames : update_folder(f, n) /\ UNCHANGED txn
    \/ \E f \in FolderIds : delete_folder(f) /\ UNCHANGED txn
    \/ collect_garbage /\ UNCHANGED txn

Spec == Init /\ [][Next]_vars

(***************************************************************************)
(* update_prompt statement by statement, called from several threads.      *)
(* sqlite3.connect() is used with its default isolation level: SELECT runs  *)
(* outside a transaction, the first INSERT opens one and takes the write    *)
(* lock, and nothing it writes is visible to other connections before       *)
(* conn.commit().                                                           *)
(***************************************************************************)
(* faulty variant: the connection is opened with isolation_level=None, every
   statement commits by itself *)
ImplicitTransactionOff == FALSE

ImplicitTransaction == TRUE

(* <<title, content>> pairs offered to the concurrent calls *)
ConcurrentTexts == { << <<"a">>, <<"x">> >>, << <<"A">>, <<"y">> >> }

Finish(w) == txn' = [ txn EXCEPT ![w] = Idle ]

(* another connection holds the write lock *)
Locked(w) ==
    leaked \/ \E u \in Writers \ {w} : txn[u].pc \in { "inserted", "updated", "deleted", "added" }

(* the store after a prompt was added *)
InitConcurrent ==
    /\ txn = [ w \in Writers |-> Idle ]
    /\ folders = <<>>
    /\ \E tc \in ConcurrentTexts :
          /\ Strip(tc[1]) # <<>> /\ Strip(tc[2]) # <<>>
          /\ prompts = Insert(<<>>, 1, PromptRow(tc[1], tc[2], NULL, 1))
          /\ versions = Insert(<<>>, 1, VersionRow(1, tc[1], tc[2], NULL, 1))
    /\ seq_folders = 0
    /\ seq_prompts = 1
    /\ seq_versions = 1
    /\ leaked = FALSE
    /\ op = "add_prompt"
    /\ ret = Returned("id", 1)

(* a thread enters update_prompt *)
update_call(w, prompt_id, title, content, folder_id) ==
    /\ txn[w].pc \in { "idle", "done" }
    /\ txn' = [ txn EXCEPT ![w] = [ pc |-> "called", prompt_id |-> prompt_id, title |-> title,
                                    content |-> content, folder_id |-> folder_id,
                                    new_version |-> 0 ] ]
    /\ UNCHANGED <<store, leaked, op, ret>>

(* a thread enters restore_version: get_prompt_version, then update_prompt *)
restore_call(w, prompt_id, version_number) ==
    /\ txn[w].pc \in { "idle", "done" }
    /\ LET version == get_prompt_version(prompt_id, version_number) IN
       IF version = <<>>
       THEN /\ op' = "restore_version"
            /\ ret' = Returned("false", 0)
            /\ Finish(w)
       ELSE /\ txn' = [ txn EXCEPT ![w] = [ pc |-> "called", prompt_id |-> prompt_id,
                                            title |-> version[1].title,
                                            content |-> version[1].content,
                                            folder_id |-> version[1].folder_id,
                                            new_version |-> 0 ] ]
            /\ UNCHANGED <<op, ret>>
    /\ UNCHANGED <<store, leaked>>

(* SELECT current_version FROM prompts WHERE id = ? *)
update_select(w) ==
    /\ txn[w].pc = "called"
    /\ IF txn[w].prompt_id \notin DOMAIN prompts
       THEN /\ op' = "update_prompt"
            /\ ret' = Returned("false", 0)
            /\ Finish(w)
       ELSE /\ txn' = [ txn EXCEPT ![w].pc = "read",
                                   ![w].new_version =
                                       new_version_of(prompts[txn[w].prompt_id].current_version) ]
            /\ UNCHANGED <<op, ret>>
    /\ UNCHANGED <<store, leaked>>

(* faulty variant: prompt_versions.prompt_id is not checked against prompts *)
PromptKeyUnchecked(prompt_id) == TRUE

(* FOREIGN KEY (prompt_id) REFERENCES prompts (id) *)
PromptKeyOk(prompt_id) == prompt_id \in DOMAIN prompts

(* INSERT INTO prompt_versions: waits for the write lock, or gives up when the
   busy timeout runs out *)
update_insert(w) ==
    /\ txn[w].pc = "read"
    /\ IF Locked(w)
       THEN /\ op' = "update_prompt"
            /\ Raise("OperationalError")
            /\ Finish(w)
            /\ UNCHANGED leaked
       ELSE IF ~ForeignKeyOk(txn[w].folder_id) \/ ~PromptKeyOk(txn[w].prompt_id)
       THEN /\ op' = "update_prompt"
            /\ Raise("IntegrityError")
            /\ Finish(w)
            /\ leaked' = TRUE
       ELSE /\ seq_versions < MaxConcurrentRows
            /\ txn' = [ txn EXCEPT ![w].pc = "inserted" ]
            /\ IF ImplicitTransaction
               THEN UNCHANGED store
               ELSE /\ versions' = Insert(versions, NextRowId(seq_versions),
                                          VersionRow(txn[w].prompt_id, txn[w].title,
                                                     txn[w].content, txn[w].folder_id,
                                                     txn[w].new_version))
                    /\ seq_versions' = NextRowId(seq_versions)
                    /\ UNCHANGED <<folders, prompts, seq_folders, seq_prompts>>
            /\ UNCHANGED <<leaked, op, ret>>

(* UPDATE prompts SET title, content, folder_id, current_version *)
update_set(w) ==
    /\ txn[w].pc = "inserted"
    /\ txn' = [ txn EXCEPT ![w].pc = "updated" ]
    /\ IF ImplicitTransaction
       THEN UNCHANGED store
       ELSE /\ prompts' = [ prompts EXCEPT ![txn[w].prompt_id] =
                               PromptRow(txn[w].title, txn[w].content, txn[w].folder_id,
                                         txn[w].new_version) ]
            /\ UNCHANGED <<folders, versions, seq_folders, seq_prompts, seq_versions>>
    /\ UNCHANGED <<leaked, op, ret>>

(* conn.commit(); conn.close(); return success *)
update_commit(w) ==
    /\ txn[w].pc = "updated"
    /\ txn' = [ txn EXCEPT ![w].pc = "done" ]
    /\ IF ImplicitTransaction
       THEN /\ versions' = Insert(versions, NextRowId(seq_versions),
                                  VersionRow(txn[w].prompt_id, txn[w].title, txn[w].content,
                                             txn[w].folder_id, txn[w].new_version))
            /\ prompts' = [ prompts EXCEPT ![txn[w].prompt_id] =
                               PromptRow(txn[w].title, txn[w].content, txn[w].folder_id,
                                         txn[w].new_version) ]
            /\ seq_versions' = NextRowId(seq_versions)
            /\ UNCHANGED <<folders, seq_folders, seq_prompts>>
       ELSE UNCHANGED store
    /\ op' = "update_prompt"
    /\ ret' = Returned("true", 0)
    /\ UNCHANGED leaked

NextConcurrent ==
    \/ \E w \in Writers, p \in PromptIds, tc \in ConcurrentTexts, f \in FolderArgs :
          update_call(w, p, tc[1], tc[2], f)
    \/ \E w \in Writers, p \in PromptIds, n \in VersionNumbers : restore_call(w, p, n)
    \/ \E w \in Writers : update_select(w)
    \/ \E w \in Writers : update_insert(w)
    \/ \E w \in Writers : update_set(w)
    \/ \E w \in Writers : update_commit(w)
    \/ collect_garbage /\ UNCHANGED txn

SpecConcurrent == InitConcurrent /\ [][NextConcurrent]_vars

(* ---- delete_prompt, statement by statement ---- *)
(* DELETE FROM prompts WHERE id = ?: takes the write lock; sqlite3.Error is caught
   and answered with False *)
delete_execute(w, prompt_id) ==
    /\ txn[w].pc \in { "idle", "done" }
    /\ IF Locked(w)
       THEN /\ op' = "delete_prompt"
            /\ ret' = Returned("false", 0)
            /\ Finish(w)
       ELSE /\ txn' = [ txn EXCEPT ![w] = [ Idle EXCEPT !.pc = "deleted",
                                                        !.prompt_id = prompt_id ] ]
            /\ UNCHANGED <<op, ret>>
    /\ UNCHANGED <<store, leaked>>

(* success = c.rowcount > 0; conn.commit(); return success *)
delete_commit(w) ==
    /\ txn[w].pc = "deleted"
    /\ txn' = [ txn EXCEPT ![w].pc = "done" ]
    /\ op' = "delete_prompt"
    /\ IF txn[w].prompt_id \in DOMAIN prompts
       THEN /\ prompts' = Restrict(prompts, DOMAIN prompts \ {txn[w].prompt_id})
            /\ versions' = CascadeVersions(versions, txn[w].prompt_id)
            /\ ret' = Returned("true", 0)
            /\ UNCHANGED <<folders, seq_folders, seq_prompts, seq_versions>>
       ELSE /\ ret' = Returned("false", 0)
            /\ UNCHANGED store
    /\ UNCHANGED leaked

(* update_prompt and restore_version next to delete_prompt *)
NextConcurrentDelete ==
    \/ \E w \in Writers, p \in PromptIds, tc \in ConcurrentTexts :
          update_call(w, p, tc[1], tc[2], NULL)
    \/ \E w \in Writers, p \in PromptIds, n \in VersionNumbers : restore_call(w, p, n)
    \/ \E w \in Writers : update_select(w)
    \/ \E w \in Writers : update_insert(w)
    \/ \E w \in Writers : update_set(w)
    \/ \E w \in Writers : update_commit(w)
    \/ \E w \in Writers, p \in PromptIds : delete_execute(w, p)
    \/ \E w \in Writers : delete_commit(w)
    \/ collect_garbage /\ UNCHANGED txn

SpecConcurrentDelete == InitConcurrent /\ [][NextConcurrentDelete]_vars

(* ---- add_prompt, statement by statement ---- *)
(* a thread enters add_prompt: the arguments are validated before a connection is
   opened *)
add_call(w, title, content, folder_id) ==
    /\ txn[w].pc \in { "idle", "done" }
    /\ IF Strip(title) = <<>> \/ Strip(content) = <<>>
       THEN /\ op' = "add_prompt"
            /\ Raise("EmptyError")
            /\ Finish(w)
       ELSE /\ txn' = [ txn EXCEPT ![w] = [ Idle EXCEPT !.pc = "add_called", !.title = title,
                                                        !.content = content,
                                                        !.folder_id = folder_id ] ]
            /\ UNCHANGED <<store, op, ret>>
    /\ UNCHANGED leaked

(* SELECT id FROM prompts WHERE LOWER(title) = LOWER(?) *)
add_select(w) ==
    /\ txn[w].pc = "add_called"
    /\ IF IsDuplicateTitle(txn[w].title)
       THEN /\ op' = "add_prompt"
            /\ Raise("DuplicateError")
            /\ Finish(w)
       ELSE /\ txn' = [ txn EXCEPT ![w].pc = "add_checked" ]
            /\ UNCHANGED <<store, op, ret>>
    /\ UNCHANGED leaked

(* INSERT INTO prompts, INSERT INTO prompt_versions: the first takes the write lock;
   an sqlite3.Error is answered with rollback and close *)
add_insert(w) ==
    /\ txn[w].pc = "add_checked"
    /\ IF Locked(w)
       THEN /\ op' = "add_prompt"
            /\ Raise("OperationalError")
            /\ Finish(w)
       ELSE IF ~ForeignKeyOk(txn[w].folder_id)
       THEN /\ op' = "add_prompt"
            /\ Raise("IntegrityError")
            /\ Finish(w)
       ELSE /\ txn' = [ txn EXCEPT ![w].pc = "added" ]
            /\ UNCHANGED <<store, op, ret>>
    /\ UNCHANGED leaked

(* conn.commit(); return prompt_id *)
add_commit(w) ==
    /\ txn[w].pc = "added"
    /\ seq_versions < MaxConcurrentRows
    /\ LET prompt_id == NextRowId(seq_prompts) IN
       /\ prompts' = Insert(prompts, prompt_id,
                            PromptRow(txn[w].title, txn[w].content, txn[w].folder_id, 1))
       /\ versions' = Insert(versions, NextRowId(seq_versions),
                             VersionRow(prompt_id, txn[w].title, txn[w].content,
                                        txn[w].folder_id, 1))
       /\ seq_prompts' = prompt_id
       /\ seq_versions' = NextRowId(seq_versions)
       /\ txn' = [ txn EXCEPT ![w].pc = "done", ![w].prompt_id = prompt_id ]
       /\ op' = "add_prompt"
       /\ ret' = Returned("id", prompt_id)
    /\ UNCHANGED <<folders, seq_folders, leaked>>

NextConcurrentAdd ==
    \/ \E w \in Writers, tc \in ConcurrentTexts : add_call(w, tc[1], tc[2], NULL)
    \/ \E w \in Writers : add_select(w)
    \/ \E w \in Writers : add_insert(w)
    \/ \E w \in Writers : add_commit(w)
    \/ \E w \in Writers, p \in PromptIds : delete_execute(w, p)
    \/ \E w \in Writers : delete_commit(w)

SpecConcurrentAdd == Init /\ [][NextConcurrentAdd]_vars

(***************************************************************************)
(* resolve_prompt_references and compose_prompt: text in, text out, reading *)
(* the prompts table.                                                       *)
(***************************************************************************)
DigitChars == << "0", "1", "2", "3", "4", "5", "6", "7", "8", "9" >>
Digits == { DigitChars[i] : i \in DOMAIN DigitChars }

(* str.isdigit() *)
isdigit(ref) == ref # <<>> /\ \A i \in DOMAIN ref : ref[i] \in Digits

DigitValue(ch) == (CHOOSE i \in DOMAIN DigitChars : DigitChars[i] = ch) - 1

(* int(ref) reads a decimal numeral: leading zeros do not count *)
RECURSIVE StripZeros(_)
StripZeros(ref) == IF Len(ref) > 1 /\ Head(ref) = "0" THEN StripZeros(Tail(ref)) ELSE ref

(* the decimal numeral of a row id *)
RECURSIVE Decimal(_)
Decimal(n) ==
    IF n < 10 THEN << DigitChars[n + 1] >>
    ELSE Decimal(n \div 10) \o << DigitChars[(n % 10) + 1] >>

(* 2^63 - 1, the largest value sqlite3 binds to an INTEGER parameter *)
MaxInt64 == << "9", "2", "2", "3", "3", "7", "2", "0", "3", "6",
               "8", "5", "4", "7", "7", "5", "8", "0", "7" >>

(* a <= b for numerals of the same length *)
RECURSIVE DigitsLeq(_, _)
DigitsLeq(a, b) ==
    IF a = <<>> THEN TRUE
    ELSE IF Head(a) # Head(b) THEN DigitValue(Head(a)) < DigitValue(Head(b))
    ELSE DigitsLeq(Tail(a), Tail(b))

(* get_prompt(int(ref)) raises OverflowError beyond 64 bits *)
FitsInt64(ref) ==
    LET d == StripZeros(ref) IN
    \/ Len(d) < Len(MaxInt64)
    \/ Len(d) = Len(MaxInt64) /\ DigitsLeq(d, MaxInt64)

(* faulty variant: the title is looked up before the id *)
replace_match_title_first(match, ref) ==
    LET by_id == { p \in DOMAIN prompts : Decimal(p) = StripZeros(ref) }
        by_title == { p \in DOMAIN prompts : prompts[p].title = ref }
    IN  IF by_title # {} THEN prompts[MinOf(by_title)].content
        ELSE IF isdigit(ref) /\ FitsInt64(ref) /\ by_id # {}
        THEN prompts[MinOf(by_id)].content
        ELSE match

(* faulty variant: a reference that is not found is dropped *)
replace_match_dropping(match, ref) ==
    LET by_id == { p \in DOMAIN prompts : Decimal(p) = StripZeros(ref) }
        by_title == { p \in DOMAIN prompts : prompts[p].title = ref }
    IN  IF isdigit(ref) /\ ~FitsInt64(ref) THEN <<>>
        ELSE IF isdigit(ref) /\ by_id # {} THEN prompts[MinOf(by_id)].content
        ELSE IF by_title # {} THEN prompts[MinOf(by_title)].content
        ELSE <<>>

(* faulty variant: the title is compared ignoring letter case *)
replace_match_ignoring_case(match, ref) ==
    LET by_id == { p \in DOMAIN prompts : Decimal(p) = StripZeros(ref) }
        by_title == { p \in DOMAIN prompts : LOWER(prompts[p].title) = LOWER(ref) }
    IN  IF isdigit(ref) /\ ~FitsInt64(ref) THEN match
        ELSE IF isdigit(ref) /\ by_id # {} THEN prompts[MinOf(by_id)].content
        ELSE IF by_title # {} THEN prompts[MinOf(by_title)].content
        ELSE match

(* faulty variant: the id lookup returns the content the prompt was created with *)
replace_match_first_version(match, ref) ==
    LET by_id == { p \in DOMAIN prompts : Decimal(p) = StripZeros(ref) }
        by_title == { p \in DOMAIN prompts : prompts[p].title = ref }
    IN  IF isdigit(ref) /\ ~FitsInt64(ref) THEN match
        ELSE IF isdigit(ref) /\ by_id # {}
        THEN versions[MinOf(VersionIdsOf(MinOf(by_id)))].content
        ELSE IF by_title # {} THEN prompts[MinOf(by_title)].content
        ELSE match

(* replace_match: match is match.group(0), ref is match.group(1).  An exception
   anywhere inside is caught and the marker returned as it stands. *)
replace_match(match, ref) ==
    LET by_id == { p \in DOMAIN prompts : Decimal(p) = StripZeros(ref) }
        by_title == { p \in DOMAIN prompts : prompts[p].title = ref }
    IN  IF isdigit(ref) /\ ~FitsInt64(ref) THEN match
        ELSE IF isdigit(ref) /\ by_id # {} THEN prompts[MinOf(by_id)].content
        ELSE IF by_title # {} THEN prompts[MinOf(by_title)].content
        ELSE match

(* the first "}" at or after j, or Len(content) + 1 *)
RECURSIVE FirstClose(_, _)
FirstClose(content, j) ==
    IF j > Len(content) \/ content[j] = "}" THEN j ELSE FirstClose(content, j + 1)

(* where the match of \{\{([^}]+)\}\} that starts at i ends, or 0 if none starts there *)
MatchEnd(content, i) ==
    IF i + 1 <= Len(content) /\ content[i] = "{" /\ content[i + 1] = "{"
    THEN LET j == FirstClose(content, i + 2) IN
         IF j > i + 2 /\ j + 1 <= Len(content) /\ content[j + 1] = "}" THEN j + 1 ELSE 0
    ELSE 0

(* faulty variant: what was put in is scanned again *)
RECURSIVE re_sub_rescanning(_, _)
re_sub_rescanning(content, i) ==
    IF i > Len(content) THEN <<>>
    ELSE LET e == MatchEnd(content, i) IN
         IF e = 0 THEN << content[i] >> \o re_sub_rescanning(content, i + 1)
         ELSE LET put == replace_match(SubSeq(content, i, e), SubSeq(content, i + 2, e - 2)) IN
              IF put = SubSeq(content, i, e)
              THEN put \o re_sub_rescanning(content, e + 1)
              ELSE LET again == MatchEnd(put, 1) IN
                   ( IF again = 0 THEN put
                     ELSE replace_match(SubSeq(put, 1, again), SubSeq(put, 3, again - 2))
                             \o SubSeq(put, again + 1, Len(put)) )
                      \o re_sub_rescanning(content, e + 1)

(* re.sub(pattern, replace_match, content) from position i on: matches are found
   left to right in the input and do not overlap *)
RECURSIVE re_sub(_, _)
re_sub(content, i) ==
    IF i > Len(content) THEN <<>>
    ELSE LET e == MatchEnd(content, i) IN
         IF e = 0 THEN << content[i] >> \o re_sub(content, i + 1)
         ELSE replace_match(SubSeq(content, i, e), SubSeq(content, i + 2, e - 2))
                 \o re_sub(content, e + 1)

resolve_prompt_references(content) == re_sub(content, 1)

(* faulty variant: str.replace(old, new, 1) *)
RECURSIVE str_replace_once(_, _, _)
str_replace_once(s, old, new) ==
    IF Len(s) < Len(old) THEN s
    ELSE IF SubSeq(s, 1, Len(old)) = old
    THEN new \o SubSeq(s, Len(old) + 1, Len(s))
    ELSE << Head(s) >> \o str_replace_once(Tail(s), old, new)

(* str.replace(old, new) *)
RECURSIVE str_replace(_, _, _)
str_replace(s, old, new) ==
    IF Len(s) < Len(old) THEN s
    ELSE IF SubSeq(s, 1, Len(old)) = old
    THEN new \o str_replace(SubSeq(s, Len(old) + 1, Len(s)), old, new)
    ELSE << Head(s) >> \o str_replace(Tail(s), old, new)

(* faulty variant: only the first item of the dict is applied *)
replace_variables_first_only(content, variables) ==
    IF variables = <<>> THEN content
    ELSE str_replace(content, << "{" >> \o variables[1][1] \o << "}" >>, variables[1][2])

(* for var_name, var_value in variables.items(): variables is the sequence of
   <<name, value>> pairs in iteration order *)
RECURSIVE replace_variables(_, _)
replace_variables(content, variables) ==
    IF variables = <<>> THEN content
    ELSE replace_variables(
            str_replace(content, << "{" >> \o variables[1][1] \o << "}" >>, variables[1][2]),
            Tail(variables))

(* faulty variant: the variables are replaced before the references are resolved *)
compose_prompt_replacing_first(content, variables) ==
    resolve_prompt_references(replace_variables(content, variables))

(* faulty variant: the references are resolved once more after the variables *)
compose_prompt_resolving_twice(content, variables) ==
    resolve_prompt_references(
        replace_variables(resolve_prompt_references(content), variables))

compose_prompt(content, variables) ==
    replace_variables(resolve_prompt_references(content), variables)

(* ---- inputs ---- *)
Marker(token) == << "{", "{" >> \o token \o << "}", "}" >>

(* 2^63 *)
Big == [ MaxInt64 EXCEPT ![19] = "8" ]

(* <<title, content>> pairs of the prompts that are referred to *)
ResolveTexts == { << <<"B">>, Marker(<<"1">>) >>, << <<"1">>, Marker(<<"B">>) >>,
                  << Big, << "{", "a", "}" >> >> }

ResolveInputs == { Marker(<<"1">>), Marker(<<"2">>), Marker(<<"B">>), Marker(<<"b">>),
                   Marker(<<"0", "1">>), Marker(Big),
                   Marker(<<"1">>) \o Marker(<<"B">>),
                   << "x", "{", "1", "}" >>,
                   << "{", "{", "1", "}", "B", "}", "}" >> }

name == << "n", "a", "m", "e" >>
World == << "W", "o", "r", "l", "d" >>
Hello == << "H", "e", "l", "l", "o", " ", "{" >> \o name \o << "}", "!" >>
a_b_a == << "{", "a", "}", "{", "b", "}", "{", "a", "}" >>
a_b == << "{", "a", "}", "b", "}" >>
a_b_c == << "{", "a", "{", "b", "}", "c", "}" >>

(* a dict of two items, in iteration order *)
Dict2(k1, v1, k2, v2) == << << k1, v1 >>, << k2, v2 >> >>

(* <<content, variables>> of the calls of compose_prompt *)
ComposeCalls ==
    { << Hello, << << name, World >> >> >>,
      << Marker(name), << << name, World >> >> >>,
      << a_b_a, << << name, World >> >> >>,
      << Marker(<<"2">>) \o << "{", "a", "}" >>, <<>> >>,
      << Marker(<<"2">>), << << <<"a">>, <<"x">> >> >> >>,
      << << "{", "a", "}" >>, << << <<"a">>, Marker(<<"1">>) >> >> >>,
      << << "{", "a", "}" >>, Dict2(<<"a">>, Marker(<<"b">>), <<"b">>, <<"y">>) >>,
      << Marker(<<"2">>) \o << "{", "a", "}" >>, Dict2(<<"a">>, <<"x">>, <<"b">>, <<"y">>) >>,
      << a_b_a, Dict2(<<"a">>, <<"x">>, <<"b">>, <<"y">>) >>,
      << a_b, Dict2(<<"a">>, <<"{">>, <<"b">>, <<"y">>) >>,
      << a_b_c, Dict2(<<"b">>, <<>>, << "a", "c" >>, <<"y">>) >> }

(* ---- the two calls ---- *)
call_resolve_prompt_references(content) ==
    /\ op' = "resolve_prompt_references"
    /\ ret' = Returned("text", resolve_prompt_references(content))
    /\ UNCHANGED <<store, leaked>>

call_compose_prompt(content, variables) ==
    /\ op' = "compose_prompt"
    /\ ret' = Returned("text", compose_prompt(content, variables))
    /\ UNCHANGED <<store, leaked>>

NextResolve ==
    \/ \E tc \in ResolveTexts : add_prompt(tc[1], tc[2], NULL) /\ UNCHANGED txn
    \/ \E p \in PromptIds, tc \in ResolveTexts :
          update_prompt(p, tc[1], tc[2], NULL) /\ UNCHANGED txn
    \/ \E p \in PromptIds, n \in VersionNumbers : restore_version(p, n) /\ UNCHANGED txn
    \/ \E p \in PromptIds : delete_prompt(p) /\ UNCHANGED txn
    \/ \E content \in ResolveInputs : call_resolve_prompt_references(content) /\ UNCHANGED txn
    \/ \E call \in ComposeCalls : call_compose_prompt(call[1], call[2]) /\ UNCHANGED txn

SpecResolve == Init /\ [][NextResolve]_vars

(***************************************************************************)
(* The endpoints under /prompts/{prompt_id}.  The id arrives as the decimal  *)
(* numeral in the path and is handed to the core as a Python int of any     *)
(* size; sqlite3 raises OverflowError when it binds one beyond 64 bits.     *)
(***************************************************************************)
(* int(path_id), for the numerals of row ids *)
ParseInt(path_id) == CHOOSE n \in 0..(seq_prompts + 1) : Decimal(n) = StripZeros(path_id)

PathIds == { Decimal(p) : p \in PromptIds } \cup { Big }

api_get_prompt(path_id) ==
    /\ op' = "get_prompt"
    /\ ret' = IF FitsInt64(path_id) THEN Returned("prompt", get_prompt(ParseInt(path_id)))
              ELSE Returned("OverflowError", 0)
    /\ UNCHANGED <<store, leaked>>

api_get_prompt_versions(path_id) ==
    /\ op' = "get_prompt_versions"
    /\ ret' = IF FitsInt64(path_id)
              THEN Returned("versions", get_prompt_versions(ParseInt(path_id)))
              ELSE Returned("OverflowError", 0)
    /\ UNCHANGED <<store, leaked>>

api_update_prompt(path_id, title, content, folder_id) ==
    IF FitsInt64(path_id)
    THEN update_prompt(ParseInt(path_id), title, content, folder_id)
    ELSE /\ op' = "update_prompt"
         /\ Raise("OverflowError")
         /\ UNCHANGED leaked

api_delete_prompt(path_id) ==
    IF FitsInt64(path_id)
    THEN delete_prompt(ParseInt(path_id))
    ELSE /\ op' = "delete_prompt"
         /\ Raise("OverflowError")
         /\ UNCHANGED leaked

api_restore_version(path_id, version_number) ==
    IF FitsInt64(path_id)
    THEN restore_version(ParseInt(path_id), version_number)
    ELSE /\ op' = "restore_version"
         /\ Raise("OverflowError")
         /\ UNCHANGED leaked

NextApi ==
    \/ \E tc \in ConcurrentTexts : add_prompt(tc[1], tc[2], NULL) /\ UNCHANGED txn
    \/ \E path_id \in PathIds : api_get_prompt(path_id) /\ UNCHANGED txn
    \/ \E path_id \in PathIds : api_get_prompt_versions(path_id) /\ UNCHANGED txn
    \/ \E path_id \in PathIds, tc \in ConcurrentTexts :
          api_update_prompt(path_id, tc[1], tc[2], NULL) /\ UNCHANGED txn
    \/ \E path_id \in PathIds : api_delete_prompt(path_id) /\ UNCHANGED txn
    \/ \E path_id \in PathIds, n \in VersionNumbers :
          api_restore_version(path_id, n) /\ UNCHANGED txn

SpecApi == Init /\ [][NextApi]_vars

(***************************************************************************)
(* Properties                                                              *)
(***************************************************************************)
VersionNumbersOf(prompt_id) == { versions[v].version_number : v \in VersionIdsOf(prompt_id) }

HasVersion(prompt_id, version_number) ==
    \E v \in VersionIdsOf(prompt_id) : versions[v].version_number = version_number

(* C1: in every reachable state each existing prompt's current_version is the
   largest version_number among the version rows it owns. *)
C1_CurrentVersionIsMax ==
    \A p \in DOMAIN prompts :
        /\ VersionIdsOf(p) # {}
        /\ prompts[p].current_version = MaxOf(VersionNumbersOf(p))

(* a prompt that has been updated or restored *)
C1_Witness ==
    \E p \in DOMAIN prompts : prompts[p].current_version >= 2 /\ seq_versions >= 2

(* C2: the version numbers of each existing prompt are exactly 1..current_version,
   and no two rows of one prompt carry the same number. *)
C2_VersionsGapFree ==
    \A p \in DOMAIN prompts :
        /\ VersionNumbersOf(p) = 1..prompts[p].current_version
        /\ Cardinality(VersionIdsOf(p)) = prompts[p].current_version

(* two prompts side by side, each with a version numbered 1 *)
C2_Witness ==
    \E p, q \in DOMAIN prompts : p # q /\ HasVersion(p, 1) /\ HasVersion(q, 1)

(* C3: each prompt row's title, content and folder_id equal those of its version
   row numbered current_version, also after delete_folder. *)
C3_PromptMirrorsTopVersion ==
    \A p \in DOMAIN prompts :
        /\ \E v \in VersionIdsOf(p) : versions[v].version_number = prompts[p].current_version
        /\ \A v \in VersionIdsOf(p) :
              versions[v].version_number = prompts[p].current_version
                 => /\ versions[v].title = prompts[p].title
                    /\ versions[v].content = prompts[p].content
                    /\ versions[v].folder_id = prompts[p].folder_id

(* the only folder ever created has just been deleted under an updated prompt *)
C3_Witness ==
    /\ op = "delete_folder"
    /\ ret.status = "true"
    /\ \E p \in DOMAIN prompts : prompts[p].current_version >= 2 /\ prompts[p].folder_id = NULL

(* C4: restore_version(id, k) of an existing version k of an existing prompt returns
   true, adds exactly one version numbered current_version + 1 that carries version
   k's title, content and folder_id, sets the prompt row to that snapshot, and
   removes or renumbers no existing version. *)
C4_RestoreCreatesNewTopVersion ==
    [][ op' = "restore_version" =>
        \A p \in PromptIds, k \in VersionNumbers :
          (p \in DOMAIN prompts /\ HasVersion(p, k) /\ restore_version(p, k))
             => LET old == prompts[p].current_version
                    added == DOMAIN versions' \ DOMAIN versions
                IN  /\ ret'.status = "true"
                    /\ Cardinality(added) = 1
                    /\ \A v \in DOMAIN versions :
                          /\ v \in DOMAIN versions'
                          /\ versions'[v].prompt_id = versions[v].prompt_id
                          /\ versions'[v].version_number = versions[v].version_number
                    /\ \A n \in added, v \in VersionIdsOf(p) :
                          versions[v].version_number = k
                             => /\ versions'[n] = [ versions[v] EXCEPT !.version_number = old + 1 ]
                                /\ prompts'[p] = [ title |-> versions[v].title,
                                                   content |-> versions[v].content,
                                                   folder_id |-> versions[v].folder_id,
                                                   current_version |-> old + 1 ] ]_vars

(* C5: a version row never changes while it exists: no step alters the title,
   content, folder_id or version_number of a row that is still there afterwards. *)
C5_VersionRowsImmutable ==
    [][ \A v \in DOMAIN versions \cap DOMAIN versions' : versions'[v] = versions[v] ]_vars

(* C5 as amended: title, content, version_number and owner of a version row never
   change; its folder_id changes only when delete_folder removes the folder it names,
   and then it becomes NULL. *)
C5_VersionRowsImmutableButFolder ==
    [][ \A v \in DOMAIN versions \cap DOMAIN versions' :
          /\ versions'[v].title = versions[v].title
          /\ versions'[v].content = versions[v].content
          /\ versions'[v].version_number = versions[v].version_number
          /\ versions'[v].prompt_id = versions[v].prompt_id
          /\ \/ versions'[v].folder_id = versions[v].folder_id
             \/ /\ versions'[v].folder_id = NULL
                /\ op' = "delete_folder"
                /\ versions[v].folder_id[1] \in DOMAIN folders \ DOMAIN folders' ]_vars

(* a prompt whose two version rows were written with a title has outlived the
   deletion of the folder *)
C5_Witness ==
    /\ op = "delete_folder"
    /\ ret.status = "true"
    /\ \E p \in DOMAIN prompts :
          /\ Cardinality(VersionIdsOf(p)) >= 2
          /\ \A v \in VersionIdsOf(p) : versions[v].folder_id = NULL /\ versions[v].title # <<>>

VersionNumberColumn(rows) == [ i \in DOMAIN rows |-> rows[i].version_number ]
CountDown(n) == [ i \in 1..n |-> n + 1 - i ]

(* C6: every update_prompt that returns true adds exactly one version row to the
   prompt and raises current_version by one, whether or not the values differ from
   the current ones; get_prompt_versions then lists current_version rows numbered
   current_version down to 1. *)
C6_UpdateAddsOneVersion ==
    [][ (op' = "update_prompt" /\ ret'.status = "true") =>
        \A p \in PromptIds :
           \/ /\ p \in DOMAIN prompts /\ p \in DOMAIN prompts'
              /\ prompts'[p].current_version = prompts[p].current_version + 1
              /\ Cardinality(VersionIdsOf(p)') = Cardinality(VersionIdsOf(p)) + 1
              /\ Cardinality(DOMAIN versions') = Cardinality(DOMAIN versions) + 1
              /\ VersionNumberColumn(get_prompt_versions(p)')
                    = CountDown(prompts'[p].current_version)
           \/ \A tc \in PromptTexts, f \in FolderArgs : ~update_prompt(p, tc[1], tc[2], f) ]_vars

(* an update that supplied exactly the current title, content and folder *)
C6_Witness ==
    /\ op = "update_prompt"
    /\ ret.status = "true"
    /\ \E p \in DOMAIN prompts : \E v, w \in VersionIdsOf(p) :
          /\ prompts[p].current_version = 2
          /\ versions[v].version_number = 1
          /\ versions[w].version_number = 2
          /\ versions[w] = [ versions[v] EXCEPT !.version_number = 2 ]

(* titles that are the same once trimmed and compared without regard to case *)
Collides(title) ==
    \E p \in DOMAIN prompts : LOWER(Strip(prompts[p].title)) = LOWER(Strip(title))

(* C7: add_prompt with title and content non-blank after trimming, a title that
   collides with no existing prompt and a folder that is absent or exists returns a
   fresh id; get_prompt(id) shows the given title, content and folder with
   current_version 1 and get_prompt_versions(id) is one row numbered 1 with the
   same title, content and folder. *)
C7_AddPromptCreatesVersionOne ==
    [][ op' = "add_prompt" =>
        \A tc \in PromptTexts, f \in FolderArgs :
          ( /\ Strip(tc[1]) # <<>> /\ Strip(tc[2]) # <<>>
            /\ ~Collides(tc[1])
            /\ (f = NULL \/ f[1] \in DOMAIN folders)
            /\ add_prompt(tc[1], tc[2], f) )
             => /\ ret'.status = "id"
                /\ \E id \in PromptIds :
                      /\ ret'.value = id
                      /\ id \notin DOMAIN prompts
                      /\ id > seq_prompts
                      /\ get_prompt(id)' =
                            << [ title |-> tc[1], content |-> tc[2], folder_id |-> f,
                                 current_version |-> 1 ] >>
                      /\ get_prompt_versions(id)' =
                            << [ prompt_id |-> id, title |-> tc[1], content |-> tc[2],
                                 folder_id |-> f, version_number |-> 1 ] >> ]_vars

(* C8: after delete_prompt(id) returns true the prompt is not found, no version row
   of it remains, and every other prompt and its version rows are as before. *)
C8_DeletePromptCascades ==
    [][ (op' = "delete_prompt" /\ ret'.status = "true") =>
        \A p \in PromptIds :
          delete_prompt(p)
             => /\ get_prompt(p)' = <<>>
                /\ VersionIdsOf(p)' = {}
                /\ get_prompt_versions(p)' = <<>>
                /\ DOMAIN prompts' = DOMAIN prompts \ {p}
                /\ \A q \in DOMAIN prompts \ {p} :
                      /\ prompts'[q] = prompts[q]
                      /\ VersionIdsOf(q)' = VersionIdsOf(q)
                      /\ \A v \in VersionIdsOf(q) : versions'[v] = versions[v] ]_vars

(* one of two prompts has just been deleted and the other still has its version *)
C8_Witness ==
    /\ op = "delete_prompt"
    /\ ret.status = "true"
    /\ seq_prompts >= 2
    /\ \E q \in DOMAIN prompts : VersionIdsOf(q) # {}

(* C9: the version rows of a prompt that still exists only grow; a version row
   disappears only in a delete_prompt of its owner. *)
C9_HistoryAppendOnly ==
    [][ \A v \in DOMAIN versions :
          /\ versions[v].prompt_id \in DOMAIN prompts'
                => /\ v \in DOMAIN versions'
                   /\ versions'[v].prompt_id = versions[v].prompt_id
          /\ v \notin DOMAIN versions'
                => /\ op' = "delete_prompt"
                   /\ versions[v].prompt_id \in DOMAIN prompts \ DOMAIN prompts' ]_vars

(* a version was restored after the folder of the prompt had been deleted *)
C9_Witness ==
    /\ op = "restore_version"
    /\ ret.status = "true"
    /\ seq_folders >= 1 /\ DOMAIN folders = {}
    /\ \E p \in DOMAIN prompts : Cardinality(VersionIdsOf(p)) >= 2

EqualIgnoringCase(s, t) == LOWER(s) = LOWER(t)

(* C10: add_prompt with a usable title and content raises DuplicateError, changes
   nothing and is answered with status 400 whenever the stored title of some prompt
   equals the given title ignoring letter case, leading or trailing blanks included. *)
C10_DuplicateTitleRejected ==
    [][ op' = "add_prompt" =>
        \A tc \in PromptTexts, f \in FolderArgs :
          ( /\ Strip(tc[1]) # <<>> /\ Strip(tc[2]) # <<>>
            /\ \E p \in DOMAIN prompts : EqualIgnoringCase(prompts[p].title, tc[1])
            /\ add_prompt(tc[1], tc[2], f) )
             => /\ ret'.status = "DuplicateError"
                /\ create_prompt_status(ret') = 400
                /\ UNCHANGED store ]_vars

(* C11: no two distinct prompts have titles that are equal ignoring letter case. *)
C11_TitlesUniqueIgnoringCase ==
    \A p, q \in DOMAIN prompts :
        p # q => ~EqualIgnoringCase(prompts[p].title, prompts[q].title)

(* empty or made of blanks only *)
Blank(s) == \A i \in DOMAIN s : s[i] \in Whitespace

(* the pairs and names that creation must refuse *)
BlankTexts == { tc \in AddPromptTexts : Blank(tc[1]) \/ Blank(tc[2]) }
BlankNames == { n \in AddFolderNames : Blank(n) }

(* C12: add_prompt with a blank title or a blank content (either alone suffices)
   and add_folder with a blank name raise the validation error and leave folders,
   prompts and versions as they were. *)
C12_BlankCreationRejected ==
    [][ /\ op' = "add_prompt" =>
              \/ ret'.status = "EmptyError" /\ UNCHANGED store
              \/ \A tc \in BlankTexts, f \in FolderArgs : ~add_prompt(tc[1], tc[2], f)
        /\ op' = "add_folder" =>
              \/ ret'.status = "EmptyError" /\ UNCHANGED store
              \/ \A n \in BlankNames : ~add_folder(n) ]_vars

(* a blank creation was refused while a prompt and a folder were stored *)
C12_Witness ==
    /\ op \in { "add_prompt", "add_folder" }
    /\ ret.status = "EmptyError"
    /\ DOMAIN prompts # {}
    /\ DOMAIN folders # {}

(* C13: update_prompt on an existing prompt with a folder that is absent or exists
   returns true and writes a new version with exactly the given values, also when
   the title is blank, the content is blank, or the title equals another prompt's
   title ignoring case. *)
C13_UpdateSkipsValidation ==
    [][ op' = "update_prompt" =>
        \A p \in DOMAIN prompts, tc \in PromptTexts, f \in FolderArgs :
          ( /\ f = NULL \/ f[1] \in DOMAIN folders
            /\ \/ Blank(tc[1])
               \/ Blank(tc[2])
               \/ \E q \in DOMAIN prompts \ {p} : EqualIgnoringCase(prompts[q].title, tc[1])
            /\ update_prompt(p, tc[1], tc[2], f) )
             => /\ ret'.status = "true"
                /\ get_prompt(p)' =
                      << [ title |-> tc[1], content |-> tc[2], folder_id |-> f,
                           current_version |-> prompts[p].current_version + 1 ] >>
                /\ Head(get_prompt_versions(p)') =
                      [ prompt_id |-> p, title |-> tc[1], content |-> tc[2], folder_id |-> f,
                        version_number |-> prompts[p].current_version + 1 ] ]_vars

(* C14: delete_folder(f) on an existing folder returns true; every prompt that was
   in f still exists with folder_id absent and title, content, current_version and
   number of version rows unchanged; every other prompt is unchanged. *)
C14_DeleteFolderClearsPrompts ==
    [][ op' = "delete_folder" =>
        \A f \in DOMAIN folders :
          delete_folder(f)
             => /\ ret'.status = "true"
                /\ DOMAIN prompts' = DOMAIN prompts
                /\ \A p \in DOMAIN prompts :
                      /\ prompts'[p] = IF prompts[p].folder_id = Some(f)
                                       THEN [ prompts[p] EXCEPT !.folder_id = NULL ]
                                       ELSE prompts[p]
                      /\ Cardinality(VersionIdsOf(p)') = Cardinality(VersionIdsOf(p)) ]_vars

(* the folder a folder_id names exists *)
FolderIdsDenoteFolders ==
    /\ \A p \in DOMAIN prompts :
          prompts[p].folder_id = NULL \/ prompts[p].folder_id[1] \in DOMAIN folders
    /\ \A v \in DOMAIN versions :
          versions[v].folder_id = NULL \/ versions[v].folder_id[1] \in DOMAIN folders

(* C15: every folder_id of a prompt row or a version row is absent or names a folder
   that exists, and add_prompt and update_prompt given a folder_id that names no
   folder create and modify no prompt row and no version row. *)
C15_FolderIdsValid ==
    /\ []FolderIdsDenoteFolders
    /\ [][ op' \in { "add_prompt", "update_prompt" } =>
              \/ ret'.status \notin { "id", "true" } /\ UNCHANGED <<prompts, versions>>
              \/ \A f \in FolderArgs :
                    (f # NULL /\ f[1] \notin DOMAIN folders)
                       => \A tc \in PromptTexts :
                             /\ ~add_prompt(tc[1], tc[2], f)
                             /\ \A p \in PromptIds : ~update_prompt(p, tc[1], tc[2], f) ]_vars

(* a prompt sits in a folder and an update naming a folder that does not exist has
   just been refused *)
C15_Witness ==
    /\ op = "update_prompt"
    /\ ret.status = "IntegrityError"
    /\ \E p \in DOMAIN prompts : prompts[p].folder_id # NULL

(* C16: while update_prompt and restore_version transactions are under way, what a
   reader finds committed is whole: the newest version row get_prompt_versions
   lists for a prompt carries exactly the current_version get_prompt reports, so
   the pointer always has its row and no row lies beyond the pointer. *)
C16_ReaderSeesWholeUpdate ==
    \A p \in PromptIds :
        get_prompt(p) # <<>>
           => LET rows == get_prompt_versions(p) IN
              /\ rows # <<>>
              /\ Head(rows).version_number = get_prompt(p)[1].current_version

(* C17: when two update_prompt calls on the same prompt have run at the same time
   and both returned true, their version rows carry different numbers and the
   prompt has one row for each number 1..current_version. *)
C17_NoLostUpdate ==
    \A w, u \in Writers :
        ( /\ w # u
          /\ txn[w].pc = "done" /\ txn[u].pc = "done"
          /\ txn[w].prompt_id = txn[u].prompt_id )
           => /\ txn[w].new_version # txn[u].new_version
              /\ LET p == txn[w].prompt_id IN
                 /\ VersionNumbersOf(p) = 1..prompts[p].current_version
                 /\ Cardinality(VersionIdsOf(p)) = prompts[p].current_version

(* C18: no operation leaves a connection it opened open: after every call, however
   it ended, no abandoned connection remains. *)
C18_NoConnectionLeftOpen == ~leaked

(* C19: an add_prompt or update_prompt that raises leaves the store as it was: no
   prompt row is created or changed, no version row is added and no
   current_version moves. *)
C19_FailedWriteChangesNothing ==
    [][ ( /\ op' \in { "add_prompt", "update_prompt" }
          /\ ret'.status \in { "EmptyError", "DuplicateError", "IntegrityError",
                               "OperationalError" } )
           => UNCHANGED store ]_vars

(* an add_prompt naming a folder that does not exist failed while a prompt with
   two versions was stored *)
C19_Witness ==
    /\ op = "add_prompt"
    /\ ret.status = "IntegrityError"
    /\ \E p \in DOMAIN prompts : prompts[p].current_version >= 2

(* C20: a call addressed to an id that does not exist answers by value and changes
   nothing: get_prompt returns nothing, and update_prompt, delete_prompt,
   update_folder and delete_folder return false without raising. *)
C20_MissingIdReturnsFalse ==
    [][ \/ ret'.status = "false" /\ UNCHANGED store
        \/ /\ \A p \in PromptIds \ DOMAIN prompts :
                 /\ get_prompt(p) = <<>>
                 /\ ~delete_prompt(p)
                 /\ \A tc \in PromptTexts, f \in FolderArgs : ~update_prompt(p, tc[1], tc[2], f)
           /\ \A f \in FolderIds \ DOMAIN folders :
                 /\ ~delete_folder(f)
                 /\ \A n \in FolderNames : ~update_folder(f, n) ]_vars

(* C21: restore_version(id, k) returns false and changes nothing whenever prompt id
   has no version numbered k: when the prompt does not exist, when k was never
   reached, and when only another prompt has a version k. *)
C21_RestoreMissingVersion ==
    [][ op' = "restore_version" =>
           \/ ret'.status = "false" /\ UNCHANGED store
           \/ \A p \in PromptIds, k \in VersionNumbers :
                 k \notin VersionNumbersOf(p) => ~restore_version(p, k) ]_vars

(* a restore was refused while one prompt lacked a version that another one has *)
C21_Witness ==
    /\ op = "restore_version"
    /\ ret.status = "false"
    /\ \E p, q \in DOMAIN prompts :
          /\ p # q
          /\ VersionNumbersOf(q) \ VersionNumbersOf(p) # {}

(* the tokens of the markers that are resolved *)
ResolveTokens == { <<"1">>, <<"2">>, <<"B">>, <<"b">>, <<"0", "1">>, Big }

(* the prompts whose id the token is the numeral of *)
PromptsWithId(t) ==
    IF isdigit(t) THEN { p \in DOMAIN prompts : Decimal(p) = StripZeros(t) } ELSE {}

PromptsTitled(t) == { p \in DOMAIN prompts : prompts[p].title = t }

(* C22: a marker whose token is all digits and is the id of an existing prompt,
   written with or without a leading zero, is replaced by that prompt's current
   content, also when another prompt has that digit string as its title; the text
   that is this marker alone resolves to exactly that content. *)
C22_IdLookupFirst ==
    [][ op' = "resolve_prompt_references" =>
          \A p \in DOMAIN prompts :
             /\ call_resolve_prompt_references(Marker(Decimal(p)))
                   => ret'.value = prompts[p].content
             /\ call_resolve_prompt_references(Marker(<<"0">> \o Decimal(p)))
                   => ret'.value = prompts[p].content ]_vars

(* prompt p was resolved by its id while prompt q carries p's numeral as its title *)
C22_Witness ==
    /\ op = "resolve_prompt_references"
    /\ \E p, q \in DOMAIN prompts :
          /\ p # q
          /\ prompts[q].title = Decimal(p)
          /\ prompts[q].content # prompts[p].content
          /\ ret.value = prompts[p].content

(* C23: a marker whose token is not all digits, or is all digits and the id of no
   prompt, is replaced by the current content of a prompt whose title is exactly the
   token; a token that equals a title only up to letter case stays as it is. *)
C23_TitleLookup ==
    [][ op' = "resolve_prompt_references" =>
          \A t \in ResolveTokens :
             ( PromptsWithId(t) = {} /\ call_resolve_prompt_references(Marker(t)) )
                => /\ PromptsTitled(t) # {}
                      => \E p \in PromptsTitled(t) : ret'.value = prompts[p].content
                   /\ PromptsTitled(t) = {} => ret'.value = Marker(t) ]_vars

(* C23 as amended: the same, for tokens whose id lookup does not raise: an all-digit
   token beyond 64 bits makes the lookup raise, and then the marker stays as it is
   whatever the titles are. *)
C23_TitleLookupUnlessRaised ==
    [][ op' = "resolve_prompt_references" =>
          \A t \in ResolveTokens :
             ( PromptsWithId(t) = {} /\ call_resolve_prompt_references(Marker(t)) )
                => IF isdigit(t) /\ ~FitsInt64(t) THEN ret'.value = Marker(t)
                   ELSE /\ PromptsTitled(t) # {}
                           => \E p \in PromptsTitled(t) : ret'.value = prompts[p].content
                        /\ PromptsTitled(t) = {} => ret'.value = Marker(t) ]_vars

(* the digit title "1" was resolved while no prompt has id 1, and a title that
   differs from the token "b" in case only is there as well *)
C23_Witness ==
    /\ op = "resolve_prompt_references"
    /\ 1 \notin DOMAIN prompts
    /\ \E p, q \in DOMAIN prompts :
          /\ prompts[p].title = <<"1">>
          /\ prompts[q].title = <<"B">>
          /\ ret.value = prompts[p].content

(* the tokens of everything in the text that has the shape of a marker *)
TokensIn(content) ==
    { SubSeq(content, i + 2, MatchEnd(content, i) - 2) :
         i \in { j \in 1..Len(content) : MatchEnd(content, j) # 0 } }

(* C24: text comes back unchanged, as text and not as an error, when nothing in it
   resolves: when it holds no marker, and when every marker in it names no prompt by
   id or title or makes the lookup raise. *)
C24_UnresolvedTextUnchanged ==
    [][ op' = "resolve_prompt_references" =>
          \A content \in ResolveInputs :
             ( /\ call_resolve_prompt_references(content)
               /\ \A t \in TokensIn(content) :
                     \/ isdigit(t) /\ ~FitsInt64(t)
                     \/ PromptsWithId(t) = {} /\ PromptsTitled(t) = {} )
                => ret' = Returned("text", content) ]_vars

(* a marker came back as it was although prompts exist: its token names none of them *)
C24_Witness ==
    /\ op = "resolve_prompt_references"
    /\ DOMAIN prompts # {}
    /\ \E t \in ResolveTokens :
          /\ PromptsWithId(t) = {} /\ PromptsTitled(t) = {}
          /\ \E p \in DOMAIN prompts : EqualIgnoringCase(prompts[p].title, t)
          /\ ret.value = Marker(t)

(* the prompts a token denotes: by id if there is one, else by title *)
Denoted(t) == IF PromptsWithId(t) # {} THEN PromptsWithId(t) ELSE PromptsTitled(t)

(* C25: what is put in for a marker is the referenced prompt's content as it stands,
   markers in it included, and every marker of the input is replaced once: also when
   the referenced prompt refers to itself or two prompts refer to each other. *)
C25_SinglePass ==
    [][ op' = "resolve_prompt_references" =>
          \A t \in { r \in ResolveTokens : Denoted(r) # {} /\ ~(isdigit(r) /\ ~FitsInt64(r)) } :
             /\ call_resolve_prompt_references(Marker(t))
                   => \E p \in Denoted(t) : ret'.value = prompts[p].content
             /\ \A u \in { r \in ResolveTokens : Marker(t) \o Marker(r) \in ResolveInputs } :
                   ( /\ Denoted(u) # {} /\ ~(isdigit(u) /\ ~FitsInt64(u))
                     /\ call_resolve_prompt_references(Marker(t) \o Marker(u)) )
                      => \E p \in Denoted(t), q \in Denoted(u) :
                            ret'.value = prompts[p].content \o prompts[q].content ]_vars

(* two prompts refer to each other, and the content of one of them came back with
   its marker in it *)
C25_Witness ==
    /\ op = "resolve_prompt_references"
    /\ \E p, q \in DOMAIN prompts :
          /\ p # q
          /\ prompts[p].content = Marker(prompts[q].title)
          /\ prompts[q].content = Marker(Decimal(p))
          /\ ret.value = prompts[q].content
          /\ TokensIn(ret.value) # {}

(* C26: the marker of prompt p resolves to p's content as of now: right after an
   update_prompt or restore_version of p that returned true it yields the content
   just written, and right after delete_prompt(p) returned true it stays as it is. *)
C26_ResolvesCurrentState ==
    [][ \A p \in PromptIds :
          /\ op' = "update_prompt" =>
                \A tc \in ResolveTexts :
                   ( update_prompt(p, tc[1], tc[2], NULL) /\ ret'.status = "true" )
                      => resolve_prompt_references(Marker(Decimal(p)))' = tc[2]
          /\ op' = "restore_version" =>
                \A n \in VersionNumbers :
                   ( restore_version(p, n) /\ ret'.status = "true" )
                      => resolve_prompt_references(Marker(Decimal(p)))'
                            = get_prompt_version(p, n)[1].content
          /\ ( op' = "delete_prompt" /\ delete_prompt(p) /\ ret'.status = "true" )
                   => resolve_prompt_references(Marker(Decimal(p)))' = Marker(Decimal(p))
      ]_vars

(* C26 as amended: the same after update_prompt and restore_version; after
   delete_prompt(p) the marker stays as it is unless a remaining prompt has the
   numeral of p as its title, and then it yields that prompt's content. *)
C26_ResolvesCurrentStateOrTitle ==
    [][ \A p \in PromptIds :
          /\ op' = "update_prompt" =>
                \A tc \in ResolveTexts :
                   ( update_prompt(p, tc[1], tc[2], NULL) /\ ret'.status = "true" )
                      => resolve_prompt_references(Marker(Decimal(p)))' = tc[2]
          /\ op' = "restore_version" =>
                \A n \in VersionNumbers :
                   ( restore_version(p, n) /\ ret'.status = "true" )
                      => resolve_prompt_references(Marker(Decimal(p)))'
                            = get_prompt_version(p, n)[1].content
          /\ ( op' = "delete_prompt" /\ delete_prompt(p) /\ ret'.status = "true" )
                   => IF PromptsTitled(Decimal(p))' = {}
                      THEN resolve_prompt_references(Marker(Decimal(p)))' = Marker(Decimal(p))
                      ELSE \E q \in PromptsTitled(Decimal(p))' :
                              resolve_prompt_references(Marker(Decimal(p)))' = prompts'[q].content
      ]_vars

(* a prompt was given a content that differs from the one it was created with, and
   its marker yields the new one *)
C26_Witness ==
    /\ op \in {"update_prompt", "restore_version"}
    /\ ret.status = "true"
    /\ \E p \in DOMAIN prompts :
          /\ prompts[p].content # versions[MinOf(VersionIdsOf(p))].content
          /\ resolve_prompt_references(Marker(Decimal(p))) = prompts[p].content

(* C27: compose_prompt resolves the references first and then replaces, item after
   item in the order of the dict, every occurrence of {name} by its value: with an
   empty dict it is resolve_prompt_references, a placeholder whose name is not a key
   stays, and "Hello {name}!" with name -> "World" gives "Hello World!". *)
C27_ComposeIsResolveThenReplace ==
    [][ op' = "compose_prompt" =>
          \A call \in ComposeCalls :
             call_compose_prompt(call[1], call[2]) =>
                LET resolved == resolve_prompt_references(call[1])
                    variables == call[2]
                    Placeholder(i) == << "{" >> \o variables[i][1] \o << "}" >>
                IN  /\ ret'.status = "text"
                    /\ Len(variables) = 0 => ret'.value = resolved
                    /\ Len(variables) = 1 =>
                          ret'.value = str_replace(resolved, Placeholder(1), variables[1][2])
                    /\ Len(variables) = 2 =>
                          ret'.value = str_replace(
                                          str_replace(resolved, Placeholder(1), variables[1][2]),
                                          Placeholder(2), variables[2][2])
                    /\ call = << Hello, << << name, World >> >> >>
                          => ret'.value = << "H", "e", "l", "l", "o", " " >> \o World \o << "!" >>
                    /\ call = << a_b_a, << << name, World >> >> >> => ret'.value = a_b_a
                    /\ call = << a_b_a, Dict2(<<"a">>, <<"x">>, <<"b">>, <<"y">>) >>
                          => ret'.value = << "x", "y", "x" >> ]_vars

(* the content of prompt 2 was put in for {{2}} and x for {a} behind it *)
C27_Witness ==
    /\ op = "compose_prompt"
    /\ 2 \in DOMAIN prompts
    /\ ret.value = prompts[2].content \o << "x" >>

(* s holds sub as a substring *)
Contains(s, sub) ==
    \E i \in 1..(Len(s) + 1 - Len(sub)) : SubSeq(s, i, i + Len(sub) - 1) = sub

Keys(variables) == { variables[i][1] : i \in DOMAIN variables }

(* C28: a marker {{token}} that names no prompt is in the output of compose_prompt
   as it was, also when token is a key of the variables. *)
C28_UnresolvedMarkerKept ==
    [][ op' = "compose_prompt" =>
          \A call \in ComposeCalls :
             ( /\ call_compose_prompt(call[1], call[2])
               /\ TokensIn(call[1]) \cap Keys(call[2]) # {} )
                => \A t \in TokensIn(call[1]) :
                      ( PromptsWithId(t) = {} /\ PromptsTitled(t) = {} )
                         => Contains(ret'.value, Marker(t)) ]_vars

Reverse(seq) == [ i \in DOMAIN seq |-> seq[Len(seq) + 1 - i] ]

Braces == { "{", "}" }
BraceFree(s) == \A i \in DOMAIN s : s[i] \notin Braces

(* between a "{" and the next "}" there is no other "{" *)
Flat(s) ==
    \A i \in DOMAIN s :
       s[i] = "{" => LET j == FirstClose(s, i + 1) IN
                     \A k \in (i + 1)..(j - 1) : s[k] # "{"

(* C29: when no value of the variables holds {n} for a key n, compose_prompt gives
   the same text for the dict in either iteration order. *)
C29_OrderOnlyThroughValues ==
    [][ op' = "compose_prompt" =>
          \A call \in ComposeCalls :
             ( /\ call_compose_prompt(call[1], call[2])
               /\ \A i \in DOMAIN call[2], n \in Keys(call[2]) :
                     ~Contains(call[2][i][2], << "{" >> \o n \o << "}" >>) )
                => ret'.value = compose_prompt(call[1], Reverse(call[2])) ]_vars

(* C29 as amended: when no key and no value of the variables holds a brace and the
   braces of the resolved content are not nested, compose_prompt gives the same text
   for the dict in either iteration order. *)
C29_OrderFreeOnFlatText ==
    [][ op' = "compose_prompt" =>
          \A call \in ComposeCalls :
             ( /\ call_compose_prompt(call[1], call[2])
               /\ \A i \in DOMAIN call[2] : BraceFree(call[2][i][1]) /\ BraceFree(call[2][i][2])
               /\ Flat(resolve_prompt_references(call[1])) )
                => ret'.value = compose_prompt(call[1], Reverse(call[2])) ]_vars

(* both placeholders of a flat text were replaced by brace-free values *)
C29_Witness ==
    /\ op = "compose_prompt"
    /\ ret.value = << "x", "y", "x" >>

SearchQueries == { NULL, Some(<<>>), Some(<<"A">>), Some(<<" ">>), Some(<<"_">>), Some(<<"%">>) }

(* C30: get_prompts returns exactly the prompts that pass every filter that is
   given: folder_id equal to the one asked for, and title holding the search text as
   a substring ignoring letter case, whatever characters the search text is made of;
   without filters it returns all prompts. *)
C30_ListIsExactFilter ==
    \A f \in FolderArgs, q \in SearchQueries :
       get_prompts(f, q) =
          [ p \in { r \in DOMAIN prompts :
                      /\ f # NULL => prompts[r].folder_id = f
                      /\ q # NULL => Contains(LOWER(prompts[r].title), LOWER(q[1])) }
              |-> prompts[p] ]

(* C31: update_folder on an existing folder returns true and changes that folder's
   name and nothing else: the folders keep their ids, all prompts and version rows
   stay as they are, and get_folder_mapping afterwards is the old mapping with the
   new name at that id. *)
C31_RenameChangesNameOnly ==
    [][ op' = "update_folder" =>
          \A f \in DOMAIN folders, n \in FolderNames :
             update_folder(f, n) =>
                /\ ret'.status = "true"
                /\ get_folder_mapping' = [ get_folder_mapping EXCEPT ![f] = n ]
                /\ UNCHANGED <<prompts, versions, seq_folders, seq_prompts, seq_versions>> ]_vars

(* the paths that name no prompt *)
MissingPathIds == { path_id \in PathIds :
                      ~FitsInt64(path_id) \/ ParseInt(path_id) \notin DOMAIN prompts }

(* C32: every endpoint under /prompts/{prompt_id} answers 404 and changes nothing
   when no prompt has that id: GET, PUT, DELETE, GET .../versions and
   POST .../restore/{n}; so GET answers 404 right after a DELETE that succeeded. *)
C32_MissingPromptIs404 ==
    [][ /\ \A path_id \in MissingPathIds :
             /\ api_get_prompt(path_id) => get_prompt_status(ret') = 404
             /\ api_get_prompt_versions(path_id) => get_prompt_versions_status(ret') = 404
             /\ op' = "update_prompt" =>
                   \A tc \in ConcurrentTexts :
                      api_update_prompt(path_id, tc[1], tc[2], NULL)
                         => /\ update_prompt_status(ret', <<>>) = 404
                            /\ UNCHANGED store
             /\ (op' = "delete_prompt" /\ api_delete_prompt(path_id))
                   => delete_prompt_status(ret') = 404 /\ UNCHANGED store
             /\ op' = "restore_version" =>
                   \A n \in VersionNumbers :
                      api_restore_version(path_id, n)
                         => restore_version_status(ret') = 404 /\ UNCHANGED store
        /\ \A path_id \in PathIds \ MissingPathIds :
             ( /\ op' = "delete_prompt"
               /\ api_delete_prompt(path_id)
               /\ delete_prompt_status(ret') = 200 )
                => get_prompt_status(Returned("prompt", get_prompt(ParseInt(path_id))'))
                      = 404 ]_vars

(* C33: get_prompts_by_folder returns exactly the prompts whose folder_id is the one
   given; given no folder it returns the prompts that are in no folder. *)
C33_ByFolderIsExact ==
    \A f \in FolderArgs :
       get_prompts_by_folder(f) =
          [ p \in { r \in DOMAIN prompts : prompts[r].folder_id = f } |-> prompts[p] ]

(* C34: update_prompt without a folder on a prompt that is in a folder returns true
   and leaves the prompt and its new top version without a folder. *)
C34_UpdateOverwritesFolder ==
    [][ op' = "update_prompt" =>
          \A p \in { r \in DOMAIN prompts : prompts[r].folder_id # NULL }, tc \in PromptTexts :
             update_prompt(p, tc[1], tc[2], NULL) =>
                /\ ret'.status = "true"
                /\ prompts'[p].folder_id = NULL
                /\ Head(get_prompt_versions(p)').folder_id = NULL
                /\ Head(get_prompt_versions(p)').version_number = prompts'[p].current_version
      ]_vars

(* C35: add_prompt never returns an id that was returned before, deleted prompts
   included, so a new prompt starts with exactly one version; and the marker of a
   deleted prompt's id never yields the content of a prompt created after it. *)
C35_IdsNeverReused ==
    /\ [][ (op' = "add_prompt" /\ ret'.status = "id") =>
             /\ ret'.value > seq_prompts
             /\ VersionIdsOf(ret'.value) = {}
             /\ Cardinality({ v \in DOMAIN versions' : versions'[v].prompt_id = ret'.value }) = 1 ]_vars
    /\ [](/\ DOMAIN prompts \subseteq 1..seq_prompts
          /\ \A p \in (1..seq_prompts) \ DOMAIN prompts :
                LET out == resolve_prompt_references(Marker(Decimal(p))) IN
                \/ out = Marker(Decimal(p))
                \/ \A q \in DOMAIN prompts : q > p => out # prompts[q].content)

(* C35 as amended: the same, but the marker of a deleted prompt's id yields the
   content of a later prompt when that prompt has the numeral as its title. *)
C35_IdsNeverReusedButTitles ==
    /\ [][ (op' = "add_prompt" /\ ret'.status = "id") =>
             /\ ret'.value > seq_prompts
             /\ VersionIdsOf(ret'.value) = {}
             /\ Cardinality({ v \in DOMAIN versions' : versions'[v].prompt_id = ret'.value }) = 1 ]_vars
    /\ [](/\ DOMAIN prompts \subseteq 1..seq_prompts
          /\ \A p \in (1..seq_prompts) \ DOMAIN prompts :
                LET out == resolve_prompt_references(Marker(Decimal(p))) IN
                \/ out = Marker(Decimal(p))
                \/ \E q \in PromptsTitled(Decimal(p)) : out = prompts[q].content)

(* a prompt was added after an earlier one had been deleted *)
C35_Witness ==
    /\ op = "add_prompt"
    /\ ret.status = "id"
    /\ (1..(ret.value - 1)) \ DOMAIN prompts # {}

(* C36: every version row belongs to a prompt that exists, in every committed state,
   also when delete_prompt commits between the SELECT and the INSERT of an
   update_prompt or restore_version on the same prompt. *)
C36_NoOrphanVersions ==
    \A v \in DOMAIN versions : versions[v].prompt_id \in DOMAIN prompts

(* an update_prompt that had read the prompt found it deleted at its INSERT *)
C36_Witness ==
    /\ op = "update_prompt"
    /\ ret.status = "IntegrityError"
    /\ prompts = <<>>
    /\ \E w \in Writers : txn[w].pc = "done"

(* C37: two add_prompt calls running at the same time with titles that are equal
   ignoring case never both succeed: when both have ended, they have not both
   created a prompt. *)
C37_ConcurrentDuplicateRejected ==
    \A w, u \in Writers :
       ( /\ w # u
         /\ txn[w].pc = "done" /\ txn[u].pc = "done"
         /\ EqualIgnoringCase(txn[w].title, txn[u].title) )
          => ~( /\ txn[w].prompt_id \in DOMAIN prompts
                /\ txn[u].prompt_id \in DOMAIN prompts
                /\ txn[w].prompt_id # txn[u].prompt_id
                /\ prompts[txn[w].prompt_id].title = txn[w].title
                /\ prompts[txn[u].prompt_id].title = txn[u].title )

(* C38: placeholders in the content a reference brings in are replaced too: for a
   prompt p whose content holds {name}, compose_prompt of the marker of p with
   name -> v gives p's content with every {name} replaced by v. *)
C38_VariablesReachResolvedContent ==
    [][ op' = "compose_prompt" =>
          \A p \in DOMAIN prompts :
             \A call \in { c \in ComposeCalls : c[1] = Marker(Decimal(p)) /\ Len(c[2]) = 1 } :
                LET placeholder == << "{" >> \o call[2][1][1] \o << "}" >>
                    v == call[2][1][2]
                IN  ( /\ Contains(prompts[p].content, placeholder)
                      /\ call_compose_prompt(call[1], call[2]) )
                       => /\ ret'.value = str_replace(prompts[p].content, placeholder, v)
                          /\ ~Contains(ret'.value, placeholder) ]_vars

(* the content of prompt 2 is {a}, and its marker with a -> x gave x *)
C38_Witness ==
    /\ op = "compose_prompt"
    /\ 2 \in DOMAIN prompts
    /\ prompts[2].content = << "{", "a", "}" >>
    /\ ret.value = << "x" >>

(* C39: a marker that comes into the text only as the value of a variable is in the
   output as it is and is not replaced by a prompt's content, also when its token is
   the id or the title of a prompt. *)
C39_ValuesAreNotReferences ==
    [][ op' = "compose_prompt" =>
          \A call \in { c \in ComposeCalls :
                           /\ TokensIn(c[1]) = {}
                           /\ \E i \in DOMAIN c[2] : TokensIn(c[2][i][2]) # {} } :
             call_compose_prompt(call[1], call[2]) =>
                /\ ret'.value = replace_variables(call[1], call[2])
                /\ \A i \in DOMAIN call[2] :
                      Contains(call[1], << "{" >> \o call[2][i][1] \o << "}" >>)
                         => Contains(ret'.value, call[2][i][2]) ]_vars

(* C39 as amended: a marker that comes into the text only as the value of a variable
   is never replaced by a prompt's content: the output is the text with the
   variables replaced and nothing resolved; the marker is in the output as it is
   when its token is not the name of a variable. *)
C39_ValuesAreNotResolved ==
    [][ op' = "compose_prompt" =>
          \A call \in { c \in ComposeCalls :
                           /\ TokensIn(c[1]) = {}
                           /\ \E i \in DOMAIN c[2] : TokensIn(c[2][i][2]) # {} } :
             call_compose_prompt(call[1], call[2]) =>
                /\ ret'.value = replace_variables(call[1], call[2])
                /\ \A i \in DOMAIN call[2] :
                      ( /\ Contains(call[1], << "{" >> \o call[2][i][1] \o << "}" >>)
                        /\ TokensIn(call[2][i][2]) \cap Keys(call[2]) = {} )
                         => Contains(ret'.value, call[2][i][2]) ]_vars

(* the marker of prompt 1 came in as a value and is in the output, while prompt 1
   exists with another content *)
C39_Witness ==
    /\ op = "compose_prompt"
    /\ 1 \in DOMAIN prompts
    /\ prompts[1].content # Marker(<<"1">>)
    /\ ret.value = Marker(<<"1">>)

====
